---- MODULE Spec2Model ----
(***************************************************************************)
(* Model of scripts/extract_proof_data.py: the proof-artifact extraction   *)
(* pipeline (existence checks, binary->hex transcoding, vk.json loading,   *)
(* and the two output writers), run as one process against a file system   *)
(* that the environment may disturb between the program's system calls.    *)
(*                                                                         *)
(* Texts (vk.json, soroban_data.json, proof_data.sh) are sequences of      *)
(* string tokens; binary files are sequences of bytes 0..255.              *)
(***************************************************************************)
EXTENDS Integers, Sequences, FiniteSets, TLC

\* ------------------------------------------------------------------ bounds
MaxFileLen == 1      \* longest binary artifact in the pipeline runs
MaxHexLen == 3       \* longest byte sequence in the encoder runs
MaxRuns == 2         \* invocations of main() in one behaviour
MaxEnvEvents == 1    \* environment disturbances in one behaviour

PipelineBytes == {255}
HexBytes == {0, 1, 2, 10, 16, 127, 128, 255}

\* ------------------------------------------------------------------- paths
proof_file == "proofs/proof/proof"
vk_file == "proofs/vk/vk"
vk_json_file == "proofs/vk.json"
public_inputs_file == "proofs/proof/public_inputs"
output_file == "proofs/soroban_data.json"
export_file == "proofs/proof_data.sh"

InputPaths == {proof_file, vk_file, vk_json_file}
OutputPaths == {output_file, export_file}
Paths == InputPaths \cup OutputPaths \cup {public_inputs_file}

\* ---------------------------------------------------------- bytes.hex()
HexChars == <<"0", "1", "2", "3", "4", "5", "6", "7",
              "8", "9", "a", "b", "c", "d", "e", "f">>

HexByteUnpadded(b) ==
    IF b < 16 THEN <<HexChars[b + 1]>>
    ELSE <<HexChars[(b \div 16) + 1], HexChars[(b % 16) + 1]>>

HexByte(b) == <<HexChars[(b \div 16) + 1], HexChars[(b % 16) + 1]>>

RECURSIVE BytesHex(_)
BytesHex(B) == IF B = <<>> THEN <<>> ELSE HexByte(Head(B)) \o BytesHex(Tail(B))

SizeOfChars(hex) == Len(hex)

SizeOf(hex) == Len(hex) \div 2

\* ------------------------------------------------------------ JSON values
JNull == [t |-> "null", n |-> 0, s |-> <<>>, keys |-> <<>>, items |-> <<>>]
JStr(s) == [t |-> "str", n |-> 0, s |-> s, keys |-> <<>>, items |-> <<>>]
JNum(n) == [t |-> "num", n |-> n, s |-> <<>>, keys |-> <<>>, items |-> <<>>]
JArr(items) == [t |-> "arr", n |-> 0, s |-> <<>>, keys |-> <<>>, items |-> items]
JObj(keys, items) == [t |-> "obj", n |-> 0, s |-> <<>>, keys |-> keys, items |-> items]

DigitChars == <<"0", "1", "2", "3", "4", "5", "6", "7", "8", "9">>
Digits == {DigitChars[i] : i \in 1..10}
DigitVal(c) == CHOOSE i \in 0..9 : DigitChars[i + 1] = c
Whitespace == {" ", "\n"}

ParseFail == [ok |-> FALSE, val |-> JNull, rest |-> <<>>]
ParseOk(v, rest) == [ok |-> TRUE, val |-> v, rest |-> rest]

RECURSIVE SkipWs(_)
SkipWs(toks) ==
    IF toks # <<>> /\ Head(toks) \in Whitespace THEN SkipWs(Tail(toks)) ELSE toks

RECURSIVE ScanString(_, _)
ScanString(toks, acc) ==
    IF toks = <<>> THEN ParseFail
    ELSE IF Head(toks) = "\"" THEN ParseOk(JStr(acc), Tail(toks))
    ELSE ScanString(Tail(toks), Append(acc, Head(toks)))

RECURSIVE ScanDigits(_, _)
ScanDigits(toks, acc) ==
    IF toks # <<>> /\ Head(toks) \in Digits
    THEN ScanDigits(Tail(toks), acc * 10 + DigitVal(Head(toks)))
    ELSE ParseOk(JNum(acc), toks)

\* dict semantics of the decoder: a repeated key keeps its first position
\* and takes the last value
ObjPut(keys, items, k, v) ==
    IF \E i \in 1..Len(keys) : keys[i] = k
    THEN LET i == CHOOSE j \in 1..Len(keys) : keys[j] = k
         IN [keys |-> keys, items |-> [items EXCEPT ![i] = v]]
    ELSE [keys |-> Append(keys, k), items |-> Append(items, v)]

RECURSIVE ParseValue(_), ParseElems(_, _), ParseMembers(_, _, _)
ParseValue(toks0) ==
    LET toks == SkipWs(toks0) IN
    IF toks = <<>> THEN ParseFail
    ELSE IF Head(toks) = "[" THEN
        LET r == SkipWs(Tail(toks)) IN
        IF r # <<>> /\ Head(r) = "]" THEN ParseOk(JArr(<<>>), Tail(r))
        ELSE ParseElems(r, <<>>)
    ELSE IF Head(toks) = "{" THEN
        LET r == SkipWs(Tail(toks)) IN
        IF r # <<>> /\ Head(r) = "}" THEN ParseOk(JObj(<<>>, <<>>), Tail(r))
        ELSE ParseMembers(r, <<>>, <<>>)
    ELSE IF Head(toks) = "\"" THEN ScanString(Tail(toks), <<>>)
    ELSE IF Head(toks) \in Digits THEN
        IF Head(toks) = "0" /\ Len(toks) > 1 /\ toks[2] \in Digits
        THEN ParseFail
        ELSE ScanDigits(toks, 0)
    ELSE ParseFail

ParseElems(toks, acc) ==
    LET v == ParseValue(toks) IN
    IF ~v.ok THEN ParseFail
    ELSE LET r == SkipWs(v.rest) IN
         IF r = <<>> THEN ParseFail
         ELSE IF Head(r) = "," THEN ParseElems(Tail(r), Append(acc, v.val))
         ELSE IF Head(r) = "]" THEN ParseOk(JArr(Append(acc, v.val)), Tail(r))
         ELSE ParseFail

ParseMembers(toks0, keys, items) ==
    LET toks == SkipWs(toks0) IN
    IF toks = <<>> \/ Head(toks) # "\"" THEN ParseFail
    ELSE LET k == ScanString(Tail(toks), <<>>) IN
         IF ~k.ok THEN ParseFail
         ELSE LET r == SkipWs(k.rest) IN
              IF r = <<>> \/ Head(r) # ":" THEN ParseFail
              ELSE LET v == ParseValue(Tail(r)) IN
                   IF ~v.ok THEN ParseFail
                   ELSE LET put == ObjPut(keys, items, k.val.s, v.val)
                            r2 == SkipWs(v.rest)
                        IN IF r2 = <<>> THEN ParseFail
                           ELSE IF Head(r2) = ","
                                THEN ParseMembers(Tail(r2), put.keys, put.items)
                           ELSE IF Head(r2) = "}"
                                THEN ParseOk(JObj(put.keys, put.items), Tail(r2))
                           ELSE ParseFail

\* json.load(f): the whole text is one value, else the decoder raises
JsonLoad(text) ==
    LET r == ParseValue(text) IN
    IF r.ok /\ SkipWs(r.rest) = <<>> THEN r ELSE ParseFail

\* json.dump(obj, f, indent=2)
RECURSIVE IntToDigits(_)
IntToDigits(n) ==
    IF n < 10 THEN <<DigitChars[n + 1]>>
    ELSE IntToDigits(n \div 10) \o <<DigitChars[(n % 10) + 1]>>

RECURSIVE Indent(_)
Indent(lvl) == IF lvl = 0 THEN <<>> ELSE <<" ", " ">> \o Indent(lvl - 1)

NewlineIndent(lvl) == <<"\n">> \o Indent(lvl)

RECURSIVE DumpValue(_, _), DumpElems(_, _, _), DumpMembers(_, _, _, _)
DumpValue(v, lvl) ==
    IF v.t = "str" THEN <<"\"">> \o v.s \o <<"\"">>
    ELSE IF v.t = "num" THEN IntToDigits(v.n)
    ELSE IF v.t = "arr" THEN
        IF v.items = <<>> THEN <<"[", "]">>
        ELSE <<"[">> \o NewlineIndent(lvl + 1) \o DumpElems(v.items, 1, lvl + 1)
             \o NewlineIndent(lvl) \o <<"]">>
    ELSE IF v.t = "obj" THEN
        IF v.keys = <<>> THEN <<"{", "}">>
        ELSE <<"{">> \o NewlineIndent(lvl + 1)
             \o DumpMembers(v.keys, v.items, 1, lvl + 1)
             \o NewlineIndent(lvl) \o <<"}">>
    ELSE <<"null">>

DumpElems(items, i, lvl) ==
    DumpValue(items[i], lvl)
    \o (IF i < Len(items)
        THEN <<",">> \o NewlineIndent(lvl) \o DumpElems(items, i + 1, lvl)
        ELSE <<>>)

DumpMembers(keys, items, i, lvl) ==
    <<"\"">> \o keys[i] \o <<"\"", ":", " ">> \o DumpValue(items[i], lvl)
    \o (IF i < Len(keys)
        THEN <<",">> \o NewlineIndent(lvl) \o DumpMembers(keys, items, i + 1, lvl)
        ELSE <<>>)

JsonDump(v) == DumpValue(v, 0)

\* ------------------------------------------------------------ file system
Absent == [exists |-> FALSE, readable |-> FALSE, data |-> <<>>]
File(data) == [exists |-> TRUE, readable |-> TRUE, data |-> data]

RECURSIVE SeqsUpTo(_, _)
SeqsUpTo(S, n) ==
    IF n = 0 THEN {<<>>}
    ELSE LET shorter == SeqsUpTo(S, n - 1)
         IN shorter \cup {Append(q, b) : q \in shorter, b \in S}

BinContents == SeqsUpTo(PipelineBytes, MaxFileLen)

\* contents of vk.json the runs draw from: an array of strings, an object,
\* an object repeating a key, a truncated array and an empty file
TxtArr == <<"[", "\"", "0a", "\"", ",", " ", "\"", "0b", "\"", "]", "\n">>
TxtObj == <<"{", "\"", "k", "\"", ":", "1", "2", "}">>
TxtDup == <<"{", "\"", "k", "\"", ":", "1", ",", " ",
            "\"", "k", "\"", ":", "[", "]", "}">>
TxtTrunc == <<"[", "\"", "0a", "\"", ",">>
TxtEmpty == <<>>
VkJsonTexts == {TxtArr, TxtObj, TxtDup, TxtTrunc, TxtEmpty}

StaleText == <<"stale", "\n">>
PublicInputs == <<"0", "7">>

VARIABLES fs, pc, run, exit_code, missing_files, reported,
          proof_hex, proof_size, vk_hex, vk_size, vk_json,
          ops, failure, startFs, prev, changedAt, envEvents

locals == <<missing_files, proof_hex, proof_size, vk_hex, vk_size, vk_json>>
history == <<startFs, prev, run>>
env == <<changedAt, envEvents>>
vars == <<fs, pc, exit_code, reported, locals, ops, failure, history, env>>

Terminal == {"blocked", "failed", "done"}

Op(kind, path) == [op |-> kind, path |-> path]

NoPrev == [pc |-> "none", exit_code |-> -1, missing |-> <<>>,
           reported |-> <<>>, json |-> Absent, sh |-> Absent, pub |-> Absent]

InitLocals ==
    /\ missing_files = <<>>
    /\ proof_hex = <<>>
    /\ proof_size = 0
    /\ vk_hex = <<>>
    /\ vk_size = 0
    /\ vk_json = JNull

InitProcess ==
    /\ pc = "start"
    /\ run = 1
    /\ exit_code = -1
    /\ reported = <<>>
    /\ InitLocals
    /\ ops = <<>>
    /\ failure = "none"
    /\ startFs = fs
    /\ prev = NoPrev
    /\ changedAt = 0
    /\ envEvents = 0

Init ==
    /\ \E p \in {Absent} \cup {File(B) : B \in BinContents},
          v \in {Absent} \cup {File(B) : B \in BinContents},
          j \in {Absent} \cup {File(t) : t \in VkJsonTexts},
          u \in {Absent, File(PublicInputs)},
          o \in {Absent, File(StaleText)} :
          fs = [q \in Paths |->
                  IF q = proof_file THEN p
                  ELSE IF q = vk_file THEN v
                  ELSE IF q = vk_json_file THEN j
                  ELSE IF q = public_inputs_file THEN u
                  ELSE o]
    /\ InitProcess

\* ------------------------------------------------------------------ main()
\* lines 24-35: resolve the four paths, print the banner
MainStart ==
    /\ pc = "start"
    /\ pc' = "check_proof"
    /\ UNCHANGED <<fs, exit_code, reported, locals, ops, failure, history, env>>

\* os.path.exists
Exists(path) == fs[path].exists

MissingAfterFirstOnly(missing, path) ==
    IF ~Exists(path) /\ missing = <<>> THEN Append(missing, path) ELSE missing

\* "if not os.path.exists(p): missing_files.append(p)"
MissingAfter(missing, path) ==
    IF ~Exists(path) THEN Append(missing, path) ELSE missing

CheckExists(here, path, next) ==
    /\ pc = here
    /\ missing_files' = MissingAfter(missing_files, path)
    /\ ops' = Append(ops, Op("exists", path))
    /\ pc' = next
    /\ UNCHANGED <<fs, exit_code, reported, proof_hex, proof_size,
                   vk_hex, vk_size, vk_json, failure, history, env>>

CheckProof == CheckExists("check_proof", proof_file, "check_vk")

CheckVk == CheckExists("check_vk", vk_file, "check_vk_json")

CheckVkJsonAndPublicInputs ==
    /\ pc = "check_vk_json"
    /\ missing_files' = MissingAfter(MissingAfter(missing_files, vk_json_file),
                                     public_inputs_file)
    /\ ops' = Append(ops, Op("exists", vk_json_file))
    /\ pc' = "gate"
    /\ UNCHANGED <<fs, exit_code, reported, proof_hex, proof_size,
                   vk_hex, vk_size, vk_json, failure, history, env>>

CheckVkJson == CheckExists("check_vk_json", vk_json_file, "gate")

\* lines 45-50: report every missing path and sys.exit(1), else go on
Gate ==
    /\ pc = "gate"
    /\ IF missing_files # <<>>
       THEN /\ reported' = missing_files
            /\ exit_code' = 1
            /\ pc' = "blocked"
       ELSE /\ pc' = "read_proof"
            /\ UNCHANGED <<reported, exit_code>>
    /\ UNCHANGED <<fs, locals, ops, failure, history, env>>

\* read_binary_file: open(filepath, 'rb') raises when the file is gone or
\* unreadable, else f.read().hex()
ReadBinaryFile(path) ==
    IF fs[path].exists /\ fs[path].readable
    THEN [ok |-> TRUE, hex |-> BytesHex(fs[path].data)]
    ELSE [ok |-> FALSE, hex |-> <<>>]

\* read_json_file: open(filepath, 'r') then json.load
ReadJsonFile(path) ==
    IF fs[path].exists /\ fs[path].readable
    THEN LET r == JsonLoad(fs[path].data)
         IN [ok |-> r.ok, val |-> r.val, err |-> IF r.ok THEN "none" ELSE "parse"]
    ELSE [ok |-> FALSE, val |-> JNull, err |-> "io"]

\* an uncaught exception ends the process with status 1
Raise(kind) ==
    /\ pc' = "failed"
    /\ exit_code' = 1
    /\ failure' = kind

ReadProofWithRetry ==
    /\ pc = "read_proof"
    /\ ops' = Append(ops, Op("read", proof_file))
    /\ LET r == ReadBinaryFile(proof_file) IN
       IF r.ok
       THEN /\ proof_hex' = r.hex
            /\ proof_size' = SizeOf(r.hex)
            /\ pc' = "read_vk"
       ELSE UNCHANGED <<proof_hex, proof_size, pc>>
    /\ UNCHANGED <<fs, exit_code, failure, reported, missing_files,
                   vk_hex, vk_size, vk_json, history, env>>

\* lines 52-56
ReadProof ==
    /\ pc = "read_proof"
    /\ ops' = Append(ops, Op("read", proof_file))
    /\ LET r == ReadBinaryFile(proof_file) IN
       IF r.ok
       THEN /\ proof_hex' = r.hex
            /\ proof_size' = SizeOf(r.hex)
            /\ pc' = "read_vk"
            /\ UNCHANGED <<exit_code, failure>>
       ELSE /\ Raise("io")
            /\ UNCHANGED <<proof_hex, proof_size>>
    /\ UNCHANGED <<fs, reported, missing_files, vk_hex, vk_size, vk_json,
                   history, env>>

\* lines 58-62
ReadVk ==
    /\ pc = "read_vk"
    /\ ops' = Append(ops, Op("read", vk_file))
    /\ LET r == ReadBinaryFile(vk_file) IN
       IF r.ok
       THEN /\ vk_hex' = r.hex
            /\ vk_size' = SizeOf(r.hex)
            /\ pc' = "read_vk_json"
            /\ UNCHANGED <<exit_code, failure>>
       ELSE /\ Raise("io")
            /\ UNCHANGED <<vk_hex, vk_size>>
    /\ UNCHANGED <<fs, reported, missing_files, proof_hex, proof_size, vk_json,
                   history, env>>

ReadVkJsonWithFallback ==
    /\ pc = "read_vk_json"
    /\ ops' = Append(ops, Op("read", vk_json_file))
    /\ LET r == ReadJsonFile(vk_json_file) IN
       /\ vk_json' = IF r.ok THEN r.val ELSE JArr(<<>>)
       /\ pc' = "write_json"
       /\ UNCHANGED <<exit_code, failure>>
    /\ UNCHANGED <<fs, reported, missing_files, proof_hex, proof_size,
                   vk_hex, vk_size, history, env>>

\* lines 64-67
ReadVkJson ==
    /\ pc = "read_vk_json"
    /\ ops' = Append(ops, Op("read", vk_json_file))
    /\ LET r == ReadJsonFile(vk_json_file) IN
       IF r.ok
       THEN /\ vk_json' = r.val
            /\ pc' = "write_json"
            /\ UNCHANGED <<exit_code, failure>>
       ELSE /\ Raise(r.err)
            /\ UNCHANGED vk_json
    /\ UNCHANGED <<fs, reported, missing_files, proof_hex, proof_size,
                   vk_hex, vk_size, history, env>>

OutputKeys == << <<"proof_hex">>, <<"proof_size_bytes">>, <<"vk_hex">>,
                 <<"vk_size_bytes">>, <<"vk_json">> >>

OutputDataSwapped ==
    JObj(OutputKeys,
         <<JStr(vk_hex), JNum(proof_size), JStr(proof_hex), JNum(vk_size), vk_json>>)

\* lines 70-76
OutputData ==
    JObj(OutputKeys,
         <<JStr(proof_hex), JNum(proof_size), JStr(vk_hex), JNum(vk_size), vk_json>>)

Unquoted(value) == value

\* f'..."{value}"'
Quoted(value) == <<"\"">> \o value \o <<"\"">>

ExportLine(name, value) == <<"export", " ", name, "=">> \o value \o <<"\n">>

\* lines 87-92
ExportText ==
    <<"#!/bin/bash", "\n">>
    \o <<"# Auto-generated proof data for Soroban deployment", "\n", "\n">>
    \o ExportLine("PROOF_HEX", Quoted(proof_hex))
    \o ExportLine("PROOF_SIZE", IntToDigits(proof_size))
    \o ExportLine("VK_HEX", Quoted(vk_hex))
    \o ExportLine("VK_SIZE", IntToDigits(vk_size))

AppendFile(old, text) == File(old.data \o text)

\* open(path, 'w') and the writes up to close: the old content is dropped
WriteFile(old, text) == File(text)

\* what a write that raises part-way may leave behind
PartialCuts(text) == {0, Len(text) \div 2}

\* the outcomes of "with open(path, 'w') as f: <write text>"
WriteOutcome(path, text, next) ==
    \/ /\ fs' = [fs EXCEPT ![path] = WriteFile(fs[path], text)]
       /\ pc' = next
       /\ exit_code' = IF next = "done" THEN 0 ELSE exit_code
       /\ UNCHANGED failure
    \/ /\ UNCHANGED fs
       /\ Raise("write")
    \/ /\ \E k \in PartialCuts(text) :
             fs' = [fs EXCEPT ![path] = WriteFile(fs[path], SubSeq(text, 1, k))]
       /\ Raise("write")

\* lines 78-82
WriteJson ==
    /\ pc = "write_json"
    /\ ops' = Append(ops, Op("write", output_file))
    /\ WriteOutcome(output_file, JsonDump(OutputData), "write_sh")
    /\ UNCHANGED <<reported, locals, history, env>>

WriteShIgnoringErrors ==
    /\ pc = "write_sh"
    /\ ops' = Append(ops, Op("write", export_file))
    /\ \/ WriteOutcome(export_file, ExportText, "done")
       \/ /\ pc' = "done"
          /\ exit_code' = 0
          /\ UNCHANGED <<fs, failure>>
    /\ UNCHANGED <<reported, locals, history, env>>

\* lines 85-108: the export file, then only printing until the normal exit
WriteSh ==
    /\ pc = "write_sh"
    /\ ops' = Append(ops, Op("write", export_file))
    /\ WriteOutcome(export_file, ExportText, "done")
    /\ UNCHANGED <<reported, locals, history, env>>

\* the operator runs the script again (lines 110-111)
Reinvoke ==
    /\ pc \in Terminal
    /\ run < MaxRuns
    /\ prev' = [pc |-> pc, exit_code |-> exit_code, missing |-> missing_files,
                reported |-> reported, json |-> fs[output_file],
                sh |-> fs[export_file], pub |-> startFs[public_inputs_file]]
    /\ run' = run + 1
    /\ startFs' = fs
    /\ pc' = "start"
    /\ exit_code' = -1
    /\ reported' = <<>>
    /\ missing_files' = <<>>
    /\ proof_hex' = <<>>
    /\ proof_size' = 0
    /\ vk_hex' = <<>>
    /\ vk_size' = 0
    /\ vk_json' = JNull
    /\ ops' = <<>>
    /\ failure' = "none"
    /\ UNCHANGED <<fs, env>>

MainNext ==
    \/ MainStart
    \/ CheckProof
    \/ CheckVk
    \/ CheckVkJson
    \/ Gate
    \/ ReadProof
    \/ ReadVk
    \/ ReadVkJson
    \/ WriteJson
    \/ WriteSh

\* ------------------------------------------------------------- environment
\* a required input is deleted by someone else
EnvRemove(path) ==
    /\ envEvents < MaxEnvEvents
    /\ fs[path].exists
    /\ fs' = [fs EXCEPT ![path] = Absent]
    /\ changedAt' = run
    /\ envEvents' = envEvents + 1
    /\ UNCHANGED <<pc, exit_code, reported, locals, ops, failure, history>>

\* a required input loses its read permission
EnvChmod(path) ==
    /\ envEvents < MaxEnvEvents
    /\ fs[path].exists
    /\ fs[path].readable
    /\ fs' = [fs EXCEPT ![path].readable = FALSE]
    /\ changedAt' = run
    /\ envEvents' = envEvents + 1
    /\ UNCHANGED <<pc, exit_code, reported, locals, ops, failure, history>>

\* the optional public_inputs file appears or disappears
EnvPublicInputs ==
    /\ envEvents < MaxEnvEvents
    /\ fs' = [fs EXCEPT ![public_inputs_file] =
                 IF fs[public_inputs_file].exists THEN Absent
                 ELSE File(PublicInputs)]
    /\ envEvents' = envEvents + 1
    /\ UNCHANGED <<pc, exit_code, reported, locals, ops, failure, history,
                   changedAt>>

Next ==
    \/ MainNext
    \/ Reinvoke
    \/ \E path \in InputPaths : EnvRemove(path)
    \/ \E path \in InputPaths : EnvChmod(path)
    \/ EnvPublicInputs

Spec == Init /\ [][Next]_vars

\* ---------------------------------------------- the encoder at full width
\* one undisturbed run of main() for every proof of up to MaxHexLen bytes
InitHex ==
    /\ \E B \in SeqsUpTo(HexBytes, MaxHexLen) :
          fs = [q \in Paths |->
                  IF q = proof_file THEN File(B)
                  ELSE IF q = vk_file THEN File(<<>>)
                  ELSE IF q = vk_json_file THEN File(TxtArr)
                  ELSE Absent]
    /\ InitProcess

SpecHex == InitHex /\ [][MainNext]_vars

\* =================================================================== claims
Required == <<proof_file, vk_file, vk_json_file>>

IsAbsent(path) == ~fs[path].exists

AbsentRequired == SelectSeq(Required, IsAbsent)

\* no input changed since the current invocation started
InputsStable == changedAt # run

OutputsUntouched ==
    /\ fs[output_file] = startFs[output_file]
    /\ fs[export_file] = startFs[export_file]

OpsOfKind(kind) == {i \in DOMAIN ops : ops[i].op = kind}

Locating == {"start", "check_proof", "check_vk", "check_vk_json", "gate"}

\* bytes.fromhex(), the decoder of the round trip
HexVal(c) == CHOOSE i \in 0..15 : HexChars[i + 1] = c

RECURSIVE FromHex(_)
FromHex(h) ==
    IF Len(h) < 2 THEN <<>>
    ELSE <<HexVal(h[1]) * 16 + HexVal(h[2])>> \o FromHex(SubSeq(h, 3, Len(h)))

LowerHexDigits == {"0", "1", "2", "3", "4", "5", "6", "7",
                   "8", "9", "a", "b", "c", "d", "e", "f"}

\* what a shell sourcing proof_data.sh sees: the text assigned to a name
ShDefines(text, name) ==
    \E i \in 3..(Len(text) - 1) :
        text[i] = name /\ text[i - 2] = "export" /\ text[i + 1] = "="

ShValue(text, name) ==
    LET i == CHOOSE k \in 3..(Len(text) - 1) :
                 text[k] = name /\ text[k - 2] = "export" /\ text[k + 1] = "="
        j == CHOOSE k \in (i + 2)..Len(text) :
                 /\ text[k] = "\n"
                 /\ \A m \in (i + 2)..(k - 1) : text[m] # "\n"
    IN SubSeq(text, i + 2, j - 1)

IsQuoted(v) == Len(v) >= 2 /\ v[1] = "\"" /\ v[Len(v)] = "\""

ShExpand(v) == IF IsQuoted(v) THEN SubSeq(v, 2, Len(v) - 1) ELSE v

IsDecimal(v) == v # <<>> /\ \A i \in DOMAIN v : v[i] \in Digits

RECURSIVE DecimalValue(_)
DecimalValue(v) ==
    IF v = <<>> THEN 0
    ELSE DecimalValue(SubSeq(v, 1, Len(v) - 1)) * 10 + DigitVal(v[Len(v)])

ParsedOutput == JsonLoad(fs[output_file].data)

ExportData == fs[export_file].data

\* C1: a run that finds required inputs absent reports every absent required
\* path, in the order proof, vk, vk.json, exits with status 1, reads no input
\* and leaves both output files as they were; and with some required input
\* absent the run never gets past the existence checks.
C1_MissingInputsBlock ==
    /\ pc = "blocked" =>
          /\ missing_files # <<>>
          /\ reported = missing_files
          /\ exit_code = 1
          /\ OutputsUntouched
          /\ OpsOfKind("read") = {}
          /\ OpsOfKind("write") = {}
          /\ InputsStable => reported = AbsentRequired
    /\ (pc \notin Locating /\ InputsStable /\ AbsentRequired # <<>>) =>
          pc = "blocked"

C1_Witness ==
    /\ pc = "blocked"
    /\ InputsStable
    /\ reported = <<proof_file, vk_json_file>>
    /\ fs[output_file] = File(StaleText)

\* C2: after a successful run on stable inputs, soroban_data.json parses as
\* an object with exactly the five fields, whose proof_hex and vk_hex are the
\* hex encodings of the source files and whose vk_json is the parsed vk.json.
C2_JsonMatchesSources ==
    (pc = "done" /\ InputsStable) =>
        /\ ParsedOutput.ok
        /\ ParsedOutput.val.t = "obj"
        /\ ParsedOutput.val.keys =
              << <<"proof_hex">>, <<"proof_size_bytes">>, <<"vk_hex">>,
                 <<"vk_size_bytes">>, <<"vk_json">> >>
        /\ ParsedOutput.val.items[1] = JStr(BytesHex(fs[proof_file].data))
        /\ ParsedOutput.val.items[3] = JStr(BytesHex(fs[vk_file].data))
        /\ JsonLoad(fs[vk_json_file].data).ok
        /\ ParsedOutput.val.items[5] = JsonLoad(fs[vk_json_file].data).val

C2_Witness ==
    /\ pc = "done"
    /\ InputsStable
    /\ fs[vk_json_file].data = TxtDup
    /\ fs[proof_file].data # <<>>
    /\ fs[proof_file].data # fs[vk_file].data

\* C3: after a successful run the sizes are exact: proof_size_bytes and
\* PROOF_SIZE equal the byte count of the proof file and half the length of
\* proof_hex, likewise vk_size_bytes and VK_SIZE, and hex lengths are even.
C3_SizesExact ==
    (pc = "done" /\ InputsStable) =>
        LET j == ParsedOutput.val IN
        /\ j.items[2] = JNum(Len(fs[proof_file].data))
        /\ 2 * j.items[2].n = Len(j.items[1].s)
        /\ j.items[4] = JNum(Len(fs[vk_file].data))
        /\ 2 * j.items[4].n = Len(j.items[3].s)
        /\ Len(proof_hex) % 2 = 0
        /\ Len(vk_hex) % 2 = 0
        /\ ShDefines(ExportData, "PROOF_SIZE")
        /\ IsDecimal(ShExpand(ShValue(ExportData, "PROOF_SIZE")))
        /\ DecimalValue(ShExpand(ShValue(ExportData, "PROOF_SIZE")))
              = Len(fs[proof_file].data)
        /\ ShDefines(ExportData, "VK_SIZE")
        /\ IsDecimal(ShExpand(ShValue(ExportData, "VK_SIZE")))
        /\ DecimalValue(ShExpand(ShValue(ExportData, "VK_SIZE")))
              = Len(fs[vk_file].data)

C3_Witness ==
    /\ pc = "done"
    /\ InputsStable
    /\ Len(fs[proof_file].data) >= 1
    /\ Len(fs[vk_file].data) >= 1

\* C4: a second successful run on unchanged inputs leaves both output files
\* byte-identical to what the first successful run wrote, and whatever the
\* earlier run left behind, a successful run's soroban_data.json is exactly
\* the serialisation of one JSON value and its proof_data.sh defines each
\* variable once.
C4_Idempotent ==
    /\ (run >= 2 /\ pc = "done" /\ prev.pc = "done" /\ changedAt = 0) =>
          /\ fs[output_file] = prev.json
          /\ fs[export_file] = prev.sh
    /\ pc = "done" =>
          /\ ParsedOutput.ok
          /\ fs[output_file].data = JsonDump(ParsedOutput.val)
          /\ ExportData[1] = "#!/bin/bash"
          /\ Cardinality({i \in DOMAIN ExportData : ExportData[i] = "export"}) = 4

C4_Witness ==
    /\ run >= 2
    /\ pc = "done"
    /\ prev.pc = "done"
    /\ changedAt = 0
    /\ proof_size >= 1
    /\ startFs[output_file] = prev.json

\* C5: read_binary_file gives two lowercase hex digits per byte and nothing
\* else, decoding its result gives back the bytes of the file, and the bytes
\* 01 02 ff give "0102ff" with size 3.
C5_HexRoundTrip ==
    (\E i \in DOMAIN ops : ops[i] = Op("read", proof_file)) =>
        LET B == fs[proof_file].data IN
        /\ Len(proof_hex) = 2 * Len(B)
        /\ \A i \in DOMAIN proof_hex : proof_hex[i] \in LowerHexDigits
        /\ FromHex(proof_hex) = B
        /\ B = <<1, 2, 255>> =>
              /\ proof_hex = <<"0", "1", "0", "2", "f", "f">>
              /\ proof_size = 3

C5_Witness ==
    /\ fs[proof_file].data = <<1, 2, 255>>
    /\ proof_hex = <<"0", "1", "0", "2", "f", "f">>
    /\ proof_size = 3

\* C6: past the existence checks, a read of the proof or the verification
\* key that cannot open the file, or a vk.json that cannot be opened or does
\* not parse, ends the run at once with a non-zero status, stores no value in
\* its place, and leaves both output files untouched.
CannotRead(path) == ~(fs[path].exists /\ fs[path].readable)

C6_ReadStep ==
    /\ (pc = "read_proof" /\ pc' # pc /\ CannotRead(proof_file)) =>
          /\ pc' = "failed"
          /\ exit_code' = 1
          /\ proof_hex' = proof_hex
          /\ proof_size' = proof_size
    /\ (pc = "read_vk" /\ pc' # pc /\ CannotRead(vk_file)) =>
          /\ pc' = "failed"
          /\ exit_code' = 1
          /\ vk_hex' = vk_hex
          /\ vk_size' = vk_size
    /\ (pc = "read_vk_json" /\ pc' # pc
        /\ (CannotRead(vk_json_file) \/ ~JsonLoad(fs[vk_json_file].data).ok)) =>
          /\ pc' = "failed"
          /\ exit_code' = 1
          /\ vk_json' = vk_json
    /\ (pc \in {"read_proof", "read_vk", "read_vk_json"} /\ pc' = "failed") =>
          fs' = fs

C6_FailedState ==
    (pc = "failed" /\ failure \in {"io", "parse"}) =>
        /\ exit_code # 0
        /\ OutputsUntouched
        /\ OpsOfKind("write") = {}

C6_ReadFailureAborts == [][C6_ReadStep]_vars /\ []C6_FailedState

C6_Witness ==
    /\ pc = "failed"
    /\ failure = "io"
    /\ changedAt = run
    /\ ops[Len(ops)] = Op("read", vk_file)
    /\ fs[output_file] = File(StaleText)

\* C7: a run ends in success only with both output files written in full by
\* it, and a failed write ends the run with a non-zero status.
C7_AllOrNothing ==
    /\ pc = "done" =>
          /\ exit_code = 0
          /\ fs[output_file] = File(JsonDump(OutputData))
          /\ fs[export_file] = File(ExportText)
          /\ OpsOfKind("write") = {7, 8}
    /\ failure = "write" => (pc = "failed" /\ exit_code # 0)
    /\ pc = "failed" => exit_code # 0

C7_Witness ==
    /\ pc = "failed"
    /\ failure = "write"
    /\ ops[Len(ops)] = Op("write", export_file)
    /\ fs[output_file] = File(JsonDump(OutputData))
    /\ fs[export_file] = startFs[export_file]

\* C8 as stated: in the proof_data.sh of a successful run each of the four
\* values is double-quoted.
ExportNames == {"PROOF_HEX", "PROOF_SIZE", "VK_HEX", "VK_SIZE"}

C8_AllValuesQuoted ==
    pc = "done" =>
        \A name \in ExportNames :
            /\ ShDefines(ExportData, name)
            /\ IsQuoted(ShValue(ExportData, name))

\* C8 amended: in the proof_data.sh of a successful run the values of
\* PROOF_HEX and VK_HEX are double-quoted, and the values of PROOF_SIZE and
\* VK_SIZE are bare decimal integers without quotes.
C8_HexQuotedSizesBare ==
    pc = "done" =>
        /\ \A name \in ExportNames : ShDefines(ExportData, name)
        /\ IsQuoted(ShValue(ExportData, "PROOF_HEX"))
        /\ IsQuoted(ShValue(ExportData, "VK_HEX"))
        /\ IsDecimal(ShValue(ExportData, "PROOF_SIZE"))
        /\ IsDecimal(ShValue(ExportData, "VK_SIZE"))

C8_Witness ==
    /\ pc = "done"
    /\ proof_size >= 1
    /\ ShValue(ExportData, "PROOF_SIZE") = IntToDigits(proof_size)

\* C9: public_inputs is inert: the program never checks, reads or writes it
\* and never reports it missing, and two runs on the same required inputs
\* end with the same missing list, the same exit status and the same two
\* output files whether or not public_inputs was there.
C9_PublicInputsInert ==
    /\ \A i \in DOMAIN ops : ops[i].path # public_inputs_file
    /\ \A i \in DOMAIN missing_files : missing_files[i] # public_inputs_file
    /\ (run >= 2 /\ changedAt = 0
        /\ pc \in {"done", "blocked"} /\ prev.pc \in {"done", "blocked"}) =>
          /\ prev.pc = pc
          /\ prev.exit_code = exit_code
          /\ prev.missing = missing_files
          /\ prev.reported = reported
          /\ prev.json = fs[output_file]
          /\ prev.sh = fs[export_file]

C9_Witness ==
    /\ run >= 2
    /\ changedAt = 0
    /\ pc = "done"
    /\ prev.pc = "done"
    /\ prev.pub # startFs[public_inputs_file]
    /\ fs[public_inputs_file] = startFs[public_inputs_file]

\* C10: within an invocation the file operations are a prefix of: the three
\* existence checks, the reads of proof, vk and vk.json, the write of
\* soroban_data.json, the write of proof_data.sh; the phases only advance
\* Start, Locating, Blocked or Encoding, Bundling, Done; terminal states are
\* never left and nothing is retried.
CanonicalOps ==
    <<Op("exists", proof_file), Op("exists", vk_file), Op("exists", vk_json_file),
      Op("read", proof_file), Op("read", vk_file), Op("read", vk_json_file),
      Op("write", output_file), Op("write", export_file)>>

Rank(p) ==
    CASE p = "start" -> 0
      [] p = "check_proof" -> 1
      [] p = "check_vk" -> 2
      [] p = "check_vk_json" -> 3
      [] p = "gate" -> 4
      [] p = "read_proof" -> 5
      [] p = "read_vk" -> 6
      [] p = "read_vk_json" -> 7
      [] p = "write_json" -> 8
      [] p = "write_sh" -> 9
      [] OTHER -> 10

OpsDoneAt(p) ==
    CASE p \in {"start", "check_proof"} -> {0}
      [] p = "check_vk" -> {1}
      [] p = "check_vk_json" -> {2}
      [] p \in {"gate", "blocked", "read_proof"} -> {3}
      [] p = "read_vk" -> {4}
      [] p = "read_vk_json" -> {5}
      [] p = "write_json" -> {6}
      [] p = "write_sh" -> {7}
      [] p = "done" -> {8}
      [] OTHER -> 4..8

C10_OpsInOrder ==
    /\ Len(ops) \in OpsDoneAt(pc)
    /\ ops = SubSeq(CanonicalOps, 1, Len(ops))

C10_Step ==
    (pc' # pc) =>
        \/ /\ pc \in Terminal
           /\ pc' = "start"
           /\ run' = run + 1
        \/ /\ pc \notin Terminal
           /\ run' = run
           /\ \/ pc' = "failed" /\ Rank(pc) >= 5
              \/ pc' = "blocked" /\ pc = "gate"
              \/ pc' = "done" /\ pc = "write_sh"
              \/ pc' \notin Terminal /\ Rank(pc') = Rank(pc) + 1

C10_PipelineOrder == [][C10_Step]_vars /\ []C10_OpsInOrder

C10_Witness ==
    /\ pc = "done"
    /\ ops = CanonicalOps
    /\ run >= 2

====
